---------------------------- MODULE Spec2Model ----------------------------
(***************************************************************************)
(* Model of api/refresh.js: the job-refresh serverless function.           *)
(*                                                                         *)
(* A name is a sequence of one-character strings.  Three specifications:   *)
(*   NormSpec   normalize applied to bounded names and their variants      *)
(*   MatchSpec  matchCompany applied to bounded names and company lists    *)
(*   Spec       one run of handler, one action per await of the code       *)
(***************************************************************************)
EXTENDS Naturals, Sequences, FiniteSets

VARIABLES
    name, other, norm,                  \* NormSpec: input, variant, results
    employerName, companies, match,     \* MatchSpec: inputs and result
    RAPIDAPI_KEY, SB_KEY,               \* credentials present (truthy) or not
    table,                              \* the store's companies table, by id
    pc, offset, dbCompanies, qi, budget, allJobs,
    employers, ei, matched, notFound,
    calls,                              \* network calls issued, in order
    res                                 \* what handler answered

nvars == <<name, other, norm>>
mvars == <<employerName, companies, match>>
hvars == <<RAPIDAPI_KEY, SB_KEY, table, pc, offset, dbCompanies, qi, budget,
           allJobs, employers, ei, matched, notFound, calls, res>>
vars == <<nvars, mvars, hvars>>

-----------------------------------------------------------------------------
(* Characters and the string primitives of JavaScript the code uses.       *)

UpperChars == <<"A","B","C","D","E","F","G","H","I","J","K","L","M",
                "N","O","P","Q","R","S","T","U","V","W","X","Y","Z">>
LowerChars == <<"a","b","c","d","e","f","g","h","i","j","k","l","m",
                "n","o","p","q","r","s","t","u","v","w","x","y","z">>

\* String.prototype.toLowerCase, one character
toLowerChar(c) ==
    IF \E i \in 1..Len(UpperChars) : UpperChars[i] = c
    THEN LowerChars[CHOOSE i \in 1..Len(UpperChars) : UpperChars[i] = c]
    ELSE c

toLowerCase(s) == [i \in 1..Len(s) |-> toLowerChar(s[i])]

\* the character class [,.\-()]
PunctChars == {",", ".", "-", "(", ")"}

\* the character class \s (the members that occur in names)
SpaceChars == {" ", "\t"}

\* the alternation (inc|llc|...|consulting), as the /i flag reads it
SuffixTokens ==
    { <<"i","n","c">>, <<"l","l","c">>, <<"c","o","r","p">>, <<"c","o">>,
      <<"l","t","d">>,
      <<"e","n","g","i","n","e","e","r","i","n","g">>,
      <<"e","n","g","i","n","e","e","r","s">>,
      <<"g","r","o","u","p">>,
      <<"c","o","m","p","a","n","y">>,
      <<"t","e","c","h","n","o","l","o","g","i","e","s">>,
      <<"c","o","n","s","u","l","t","i","n","g">> }

DropFrom(s, i) == SubSeq(s, i, Len(s))

\* the length of the run of characters of class cls that starts s
RECURSIVE RunLen(_, _)
RunLen(s, cls) ==
    IF s # <<>> /\ Head(s) \in cls THEN 1 + RunLen(Tail(s), cls) ELSE 0

\* s.replace(/[cls]+/g, ' '): every maximal run of cls becomes one space
RECURSIVE ReplaceRuns(_, _)
ReplaceRuns(s, cls) ==
    IF s = <<>> THEN <<>>
    ELSE IF Head(s) \in cls
         THEN <<" ">> \o ReplaceRuns(DropFrom(s, RunLen(s, cls) + 1), cls)
         ELSE <<Head(s)>> \o ReplaceRuns(Tail(s), cls)

\* /\s+(token)\.?$/i matches s from position i on.  \s+ takes the whole
\* run of whitespace at i: given back a space, the rest would start with
\* whitespace, which no token does
SuffixMatchAt(s, i) ==
    /\ s[i] \in SpaceChars
    /\ LET rest == toLowerCase(DropFrom(s, i + RunLen(DropFrom(s, i), SpaceChars)))
       IN  \/ rest \in SuffixTokens
           \/ /\ rest # <<>>
              /\ rest[Len(rest)] = "."
              /\ SubSeq(rest, 1, Len(rest) - 1) \in SuffixTokens

\* s.replace(/\s+(token)\.?$/i, ''): the leftmost match, replaced once
StripSuffix(s) ==
    LET at == { i \in 1..Len(s) : SuffixMatchAt(s, i) }
    IN  IF at = {} THEN s
        ELSE SubSeq(s, 1, (CHOOSE i \in at : \A j \in at : i <= j) - 1)

\* String.prototype.trim
RECURSIVE TrimEnd(_)
TrimEnd(s) ==
    IF s # <<>> /\ s[Len(s)] \in SpaceChars
    THEN TrimEnd(SubSeq(s, 1, Len(s) - 1)) ELSE s

trim(s) == TrimEnd(DropFrom(s, RunLen(s, SpaceChars) + 1))

\* function normalize(name)
normalize(n) ==
    trim(ReplaceRuns(StripSuffix(ReplaceRuns(toLowerCase(n), PunctChars)),
                     SpaceChars))

\* String.prototype.startsWith
startsWith(s, p) == Len(p) <= Len(s) /\ SubSeq(s, 1, Len(p)) = p

\* String.prototype.includes
includes(s, p) ==
    \E i \in 1..(Len(s) - Len(p) + 1) : SubSeq(s, i, i + Len(p) - 1) = p

-----------------------------------------------------------------------------
(* NormSpec: normalize on every name over NormAlphabet up to MaxNameLen    *)
(* characters and on a few longer sample names.  `other` is rewritten      *)
(* from `name` by steps that change only letter case, put a punctuation    *)
(* character where there was a space, or add whitespace.                   *)

MaxNameLen == 5

NormAlphabet == {"a", "c", "o", " "}

VaryPunct == {",", "."}

Strings(alphabet, n) == UNION { [1..k -> alphabet] : k \in 0..n }

sAcmeCommaIncDot == <<"A","c","m","e",","," ","I","n","c",".">>
sAcmeIncInc == <<"a","c","m","e"," ","i","n","c"," ","i","n","c">>
sAceEngineering ==
    <<"A","c","e"," ","E","n","g","i","n","e","e","r","i","n","g">>
sAcmeEngineeringGroup ==
    <<"a","c","m","e"," ","e","n","g","i","n","e","e","r","i","n","g",
      " ","g","r","o","u","p">>

SampleNames ==
    {sAcmeCommaIncDot, sAcmeIncInc, sAceEngineering, sAcmeEngineeringGroup}

HandlerIdle ==
    /\ RAPIDAPI_KEY = FALSE /\ SB_KEY = FALSE /\ table = <<>>
    /\ pc = "idle" /\ offset = 0 /\ dbCompanies = <<>> /\ qi = 0
    /\ budget = 0 /\ allJobs = <<>> /\ employers = <<>> /\ ei = 0
    /\ matched = <<>> /\ notFound = <<>> /\ calls = <<>> /\ res = <<>>

MatchIdle == employerName = <<>> /\ companies = <<>> /\ match = <<>>

NormIdle == name = <<>> /\ other = <<>> /\ norm = <<>>

sAcmeInc == <<"a","c","m","e"," ","i","n","c">>

\* pairs of names that differ only in case, punctuation and whitespace
SamplePairs == {<<sAcmeInc, sAcmeCommaIncDot>>}

NormInit ==
    /\ \/ name \in Strings(NormAlphabet, MaxNameLen) \cup SampleNames /\ other = name
       \/ \E pr \in SamplePairs : name = pr[1] /\ other = pr[2]
    /\ norm = <<>>
    /\ MatchIdle /\ HandlerIdle

\* a letter of `other` becomes upper case
NormVaryCase ==
    /\ norm = <<>> /\ Len(other) <= MaxNameLen
    /\ \E i \in 1..Len(other) : \E k \in 1..Len(LowerChars) :
          /\ other[i] = LowerChars[k]
          /\ other' = [other EXCEPT ![i] = UpperChars[k]]
    /\ UNCHANGED <<name, norm, mvars, hvars>>

\* a space of `other` becomes a punctuation character
NormVaryPunct ==
    /\ norm = <<>> /\ Len(other) <= MaxNameLen
    /\ \E i \in 1..Len(other) : \E p \in VaryPunct :
          /\ other[i] = " "
          /\ other' = [other EXCEPT ![i] = p]
    /\ UNCHANGED <<name, norm, mvars, hvars>>

\* a space is added before, after or between the characters of `other`
NormVarySpace ==
    /\ norm = <<>> /\ Len(other) < MaxNameLen
    /\ \E i \in 0..Len(other) :
          /\ IF i = 0 \/ i = Len(other) THEN TRUE
             ELSE {other[i], other[i + 1]} \cap (SpaceChars \cup PunctChars) # {}
          /\ other' = SubSeq(other, 1, i) \o <<" ">> \o DropFrom(other, i + 1)
    /\ UNCHANGED <<name, norm, mvars, hvars>>

NormApply ==
    /\ norm = <<>>
    /\ norm' = <<[x  |-> normalize(name),
                  xx |-> normalize(normalize(name)),
                  y  |-> normalize(other)]>>
    /\ UNCHANGED <<name, other, mvars, hvars>>

NormNext == NormVaryCase \/ NormVaryPunct \/ NormVarySpace \/ NormApply

NormSpec == NormInit /\ [][NormNext]_vars

\* the words of a name: what is left between whitespace and punctuation,
\* in lower case
RECURSIVE Words(_)
Words(s) ==
    LET t == DropFrom(s, RunLen(s, SpaceChars \cup PunctChars) + 1)
        n == IF \E i \in 1..Len(t) : t[i] \in SpaceChars \cup PunctChars
             THEN (CHOOSE i \in 1..Len(t) :
                      /\ t[i] \in SpaceChars \cup PunctChars
                      /\ \A j \in 1..(i - 1) :
                            t[j] \notin SpaceChars \cup PunctChars) - 1
             ELSE Len(t)
    IN  IF t = <<>> THEN <<>>
        ELSE <<toLowerCase(SubSeq(t, 1, n))>> \o Words(DropFrom(t, n + 1))

\* C2: normalize is idempotent: normalize(normalize(x)) = normalize(x) for
\* every name x, also when x ends in two corporate-suffix tokens.
C2_Idempotent == norm # <<>> => norm[1].xx = norm[1].x

\* C3: names that differ only in letter case, in punctuation where the other
\* has spaces, and in the amount of whitespace normalize to the same string
\* (as "Acme, Inc." and "acme inc" do).
C3_CasePunctInsensitive ==
    (norm # <<>> /\ Words(other) = Words(name)) => norm[1].y = norm[1].x

-----------------------------------------------------------------------------
(* matchCompany.  A company is [id, companyname, tier]; the result is <<>>  *)
(* for null and <<c>> for the company c.                                   *)

\* the 5 of `dbNorm.length >= 5` and `normalized.length >= 5`
PrefixMinLen == 5

\* a faulty variant: the substring guard as short as the short names
SubstrMinLenShort == PrefixMinLen - 1

\* the 8 of `dbNorm.length >= 8` and `normalized.length >= 8`
SubstrMinLen == 8

\* the five tests of the loop body, in the code's order
matchRule(k, normalized, dbNorm) ==
    CASE k = 1 -> dbNorm = normalized
      [] k = 2 -> Len(dbNorm) >= PrefixMinLen
                  /\ startsWith(normalized, dbNorm \o <<" ">>)
      [] k = 3 -> Len(normalized) >= PrefixMinLen
                  /\ startsWith(dbNorm, normalized \o <<" ">>)
      [] k = 4 -> Len(dbNorm) >= SubstrMinLen /\ includes(normalized, dbNorm)
      [] k = 5 -> Len(normalized) >= SubstrMinLen
                  /\ includes(dbNorm, normalized)

\* the for loop of matchCompany from the i-th company on
RECURSIVE matchFrom(_, _, _)
matchFrom(normalized, db, i) ==
    IF i > Len(db) THEN <<>>
    ELSE LET c == db[i]
             dbNorm == normalize(c.companyname)
         IN  IF \E k \in 1..5 : matchRule(k, normalized, dbNorm)
             THEN <<c>>
             ELSE matchFrom(normalized, db, i + 1)

\* a faulty variant: an exact match anywhere in the list is preferred
matchCompanyExactFirst(emp, db) ==
    LET normalized == normalize(emp)
        exact == { i \in 1..Len(db) : normalize(db[i].companyname) = normalized }
    IN  IF exact # {}
        THEN <<db[CHOOSE i \in exact : \A j \in exact : i <= j]>>
        ELSE matchFrom(normalized, db, 1)

\* function matchCompany(employerName, dbCompanies)
matchCompany(emp, db) == matchFrom(normalize(emp), db, 1)

-----------------------------------------------------------------------------
(* MatchSpec: matchCompany on search names of up to MaxWords words and on  *)
(* lists of up to MaxCompanies reference companies.                        *)

MaxWords == 3

MaxCompanies == 2

wAcme == <<"A","c","m","e">>
wIntel == <<"i","n","t","e","l">>
wInc == <<"i","n","c">>

Vocabulary == {wAcme, wIntel, wInc}

RECURSIVE Join(_)
Join(ws) ==
    IF Len(ws) = 1 THEN ws[1] ELSE ws[1] \o <<" ">> \o Join(Tail(ws))

WordNames(n) == UNION { { Join(ws) : ws \in [1..k -> Vocabulary] } : k \in 1..n }

sIntel == <<"I","n","t","e","l">>
sIntellivation == <<"I","n","t","e","l","l","i","v","a","t","i","o","n">>
sIntelCorporation ==
    <<"I","n","t","e","l"," ","C","o","r","p","o","r","a","t","i","o","n">>
sAcmeIntel == <<"A","c","m","e"," ","I","n","t","e","l">>
sIncAcmeIntel == wInc \o <<" ">> \o sAcmeIntel
sIntelAcmeIntel == sIntel \o <<" ">> \o sAcmeIntel
sAcmeLlc == <<"A","C","M","E",","," ","L","L","C">>

SearchNames == WordNames(MaxWords) \cup {sIntellivation, sIntelCorporation}

sACo == <<"a"," ","c","o">>

RefNames ==
    {wAcme, sACo, sIntel, sAcmeIntel, sIncAcmeIntel, sIntelAcmeIntel, sAcmeLlc}

\* every name of 4 characters over these
ShortAlphabet == {"a", "c", "m", "e", " "}

ShortNames == [1..4 -> ShortAlphabet]

TierOf(nm) == IF Len(nm) <= 5 THEN "A" ELSE "B"

Company(i, nm) == [id |-> i, companyname |-> nm, tier |-> TierOf(nm)]

CompanyLists(names, n) ==
    UNION { { [i \in 1..k |-> Company(i, f[i])] : f \in [1..k -> names] } :
            k \in 0..n }

MatchInit ==
    /\ employerName \in SearchNames
    /\ companies \in CompanyLists(RefNames, MaxCompanies)
                      \cup CompanyLists(ShortNames, 1)
    /\ match = <<>>
    /\ NormIdle /\ HandlerIdle

MatchApply ==
    /\ match = <<>>
    /\ match' = <<matchCompany(employerName, companies)>>
    /\ UNCHANGED <<employerName, companies, nvars, hvars>>

MatchNext == MatchApply

MatchSpec == MatchInit /\ [][MatchNext]_vars

-----------------------------------------------------------------------------
(* Spec: one run of handler.  The code runs without interruption between   *)
(* two awaits, so there is one action per network call that completes.     *)
(* A call is [op, arg, outcome]; it is logged when it is issued and its    *)
(* outcome is filled in when it completes.  `budget` caps the listings the *)
(* provider returns in one run at MaxJobs; the store holds up to MaxTable  *)
(* companies.                                                              *)

MaxJobs == 3

MaxTable == 3

\* const SEARCHES
SEARCHES == <<"mechanical", "design", "HVAC", "fabrication", "structural">>

\* limit=1000 and `batch.length < 1000`, scaled down to pages of 2 rows
PageLimit == 2

\* notFound.slice(0, 20)
NewCompaniesCap == 20

TableNames == <<wAcme, sIntel, sAcmeIntel>>

TableRow(i) == Company(i, TableNames[((i - 1) % Len(TableNames)) + 1])

\* what the job-search provider may return: employer_name <<>> is a
\* listing without employer name (null or "")
Listings ==
    { [employer_name |-> wAcme, job_title |-> "Mechanical Engineer",
       job_city |-> "Denver", job_apply_link |-> "u1"],
      [employer_name |-> <<"A","C","M","E">>, job_title |-> "Design Engineer",
       job_city |-> "Boulder", job_apply_link |-> "u2"],
      [employer_name |-> sIntelCorporation, job_title |-> "HVAC Engineer",
       job_city |-> "Aurora", job_apply_link |-> "u3"],
      [employer_name |-> <<>>, job_title |-> "CAD Engineer",
       job_city |-> "Denver", job_apply_link |-> "u4"],
      [employer_name |-> sIntellivation, job_title |-> "Structural Engineer",
       job_city |-> "Golden", job_apply_link |-> "u5"] }

\* how a fetch of the reference store may end: a page of rows, a rejected
\* promise, or a non-success status whose body is a JSON object, is not
\* JSON, or is a JSON array
StoreOutcomes == {"ok", "reject", "http_object", "http_notjson", "http_array"}

StoreHttpErrors == {"http_object", "http_notjson", "http_array"}

\* how a fetch of the provider or a PATCH of the store may end: a success
\* status, a non-success status, a rejected promise
FetchOutcomes == {"ok", "http", "reject"}

Issue(cs, op, arg) == Append(cs, [op |-> op, arg |-> arg, outcome |-> "pending"])

Completed(outcome) == [calls EXCEPT ![Len(calls)].outcome = outcome]

\* a faulty variant: only both credentials missing is an error
credentialsMissingBoth == ~RAPIDAPI_KEY /\ ~SB_KEY

\* if (!RAPIDAPI_KEY || !SB_KEY)
credentialsMissing == ~RAPIDAPI_KEY \/ ~SB_KEY

\* a faulty variant: the status of the response is not looked at
searchJobsThrowsOnRejectOnly(outcome) == outcome = "reject"

\* searchJobs throws: fetch rejected, or `if (!res.ok) throw`
searchJobsThrows(outcome) == outcome # "ok"

\* getCompanies throws: fetch rejected, res.json() throws on a body that is
\* not JSON, all.push(...batch) throws on a body that is not iterable;
\* res.ok is not looked at
getCompaniesThrows(outcome) == outcome \in {"reject", "http_notjson", "http_object"}

\* updateCompany and updateTracking throw: fetch rejected; the response is
\* not looked at
updateThrows(outcome) == outcome = "reject"

\* a faulty variant: the Map is keyed by the name as given
employerKeyRaw(nm) == nm

\* name.toLowerCase(), the key of the employers Map
employerKey(nm) == toLowerCase(nm)

\* step 3 of handler: the employers Map, in insertion order
RECURSIVE dedupeFrom(_, _, _)
dedupeFrom(jobs, i, emps) ==
    IF i > Len(jobs) THEN emps
    ELSE LET nm == jobs[i].employer_name
         IN  IF nm # <<>> /\ ~\E p \in 1..Len(emps) : emps[p].key = employerKey(nm)
             THEN dedupeFrom(jobs, i + 1,
                      Append(emps, [key |-> employerKey(nm),
                                    emp |-> [name |-> nm,
                                             title |-> jobs[i].job_title,
                                             location |-> jobs[i].job_city,
                                             url |-> jobs[i].job_apply_link]]))
             ELSE dedupeFrom(jobs, i + 1, emps)

dedupe(jobs) == dedupeFrom(jobs, 1, <<>>)

\* step 4 of handler from the i-th employer up to the next await: the
\* employers passed over go to notFound, `found` is the next match
RECURSIVE matchLoop(_, _, _, _)
matchLoop(emps, db, i, nf) ==
    IF i > Len(emps) THEN [ei |-> i, notFound |-> nf, found |-> <<>>]
    ELSE LET m == matchCompany(emps[i].emp.name, db)
         IN  IF m # <<>> THEN [ei |-> i, notFound |-> nf, found |-> m]
             ELSE matchLoop(emps, db, i + 1, Append(nf, emps[i].emp))

Min(a, b) == IF a <= b THEN a ELSE b

\* the result object of handler
Report(jobs, emps, m, nf) ==
    [totalJobsFound |-> Len(jobs), uniqueEmployers |-> Len(emps),
     matchedInDB |-> Len(m), notInDB |-> Len(nf), matches |-> m,
     newCompanies |-> SubSeq(nf, 1, Min(NewCompaniesCap, Len(nf)))]

\* catch (err): res.status(500).json({ error: err.message })
Throw(msg) ==
    /\ pc' = "done"
    /\ res' = <<[status |-> 500, error |-> msg, report |-> <<>>]>>

\* the loop of step 4 resumed at employer i, up to updateCompany's fetch or
\* to the report
MatchOn(cs, jobs, emps, i) ==
    LET r == matchLoop(emps, dbCompanies, i, notFound)
    IN  /\ ei' = r.ei
        /\ notFound' = r.notFound
        /\ IF r.found # <<>>
           THEN /\ matched' = Append(matched,
                                 [search |-> emps[r.ei].emp.name,
                                  db |-> r.found[1].companyname,
                                  tier |-> r.found[1].tier])
                /\ calls' = Issue(cs, "updateCompany", r.found[1].companyname)
                /\ pc' = "updateCompany"
                /\ res' = res
           ELSE /\ matched' = matched
                /\ calls' = cs
                /\ pc' = "done"
                /\ res' = <<[status |-> 200, error |-> "",
                             report |-> <<Report(jobs, emps, matched,
                                                 r.notFound)>>]>>

Init ==
    /\ RAPIDAPI_KEY \in BOOLEAN /\ SB_KEY \in BOOLEAN
    /\ table \in { [i \in 1..k |-> TableRow(i)] : k \in 0..MaxTable }
    /\ pc = "start" /\ offset = 0 /\ dbCompanies = <<>> /\ qi = 0
    /\ budget = MaxJobs /\ allJobs = <<>> /\ employers = <<>> /\ ei = 0
    /\ matched = <<>> /\ notFound = <<>> /\ calls = <<>> /\ res = <<>>
    /\ NormIdle /\ MatchIdle

\* handler up to the first fetch of getCompanies
HandlerStart ==
    /\ pc = "start"
    /\ IF credentialsMissing
       THEN /\ pc' = "done"
            /\ res' = <<[status |-> 500,
                         error |-> "Missing RAPIDAPI_KEY or SUPABASE_SERVICE_KEY env vars",
                         report |-> <<>>]>>
            /\ calls' = calls
       ELSE /\ pc' = "getCompanies"
            /\ calls' = Issue(calls, "getCompanies", 0)
            /\ res' = res
    /\ UNCHANGED <<RAPIDAPI_KEY, SB_KEY, table, offset, dbCompanies, qi, budget,
                   allJobs, employers, ei, matched, notFound, nvars, mvars>>

\* a fetch of getCompanies completes
GetCompaniesResponse ==
    /\ pc = "getCompanies"
    /\ \E outcome \in StoreOutcomes :
          IF getCompaniesThrows(outcome)
          THEN /\ Throw(outcome)
               /\ calls' = Completed(outcome)
               /\ UNCHANGED <<offset, dbCompanies, qi>>
          ELSE LET batch == IF outcome = "ok"
                            THEN SubSeq(table, offset + 1,
                                        Min(offset + PageLimit, Len(table)))
                            ELSE <<>>
               IN  /\ dbCompanies' = dbCompanies \o batch
                   /\ res' = res
                   /\ IF Len(batch) < PageLimit
                      THEN /\ pc' = "searchJobs"
                           /\ qi' = 1
                           /\ offset' = offset
                           /\ calls' = Issue(Completed(outcome), "searchJobs",
                                             SEARCHES[1])
                      ELSE /\ pc' = "getCompanies"
                           /\ qi' = qi
                           /\ offset' = offset + PageLimit
                           /\ calls' = Issue(Completed(outcome), "getCompanies",
                                             offset + PageLimit)
    /\ UNCHANGED <<RAPIDAPI_KEY, SB_KEY, table, budget, allJobs, employers, ei,
                   matched, notFound, nvars, mvars>>

\* the fetch of searchJobs completes; after the last query, steps 3 and 4
SearchJobsResponse ==
    /\ pc = "searchJobs"
    /\ \E outcome \in FetchOutcomes :
          IF searchJobsThrows(outcome)
          THEN /\ Throw(outcome)
               /\ calls' = Completed(outcome)
               /\ UNCHANGED <<qi, budget, allJobs, employers, ei, matched, notFound>>
          ELSE \E jobs \in (IF outcome = "ok"
                            THEN UNION { [1..k -> Listings] : k \in 0..budget }
                            ELSE {<<>>}) :
                  /\ allJobs' = allJobs \o jobs
                  /\ budget' = budget - Len(jobs)
                  /\ IF qi < Len(SEARCHES)
                     THEN /\ qi' = qi + 1
                          /\ calls' = Issue(Completed(outcome), "searchJobs",
                                            SEARCHES[qi + 1])
                          /\ UNCHANGED <<pc, res, employers, ei, matched, notFound>>
                     ELSE LET emps == dedupe(allJobs \o jobs)
                          IN  /\ qi' = qi
                              /\ employers' = emps
                              /\ MatchOn(Completed(outcome), allJobs \o jobs,
                                         emps, 1)
    /\ UNCHANGED <<RAPIDAPI_KEY, SB_KEY, table, offset, dbCompanies, nvars, mvars>>

\* the fetch of updateCompany completes
UpdateCompanyResponse ==
    /\ pc = "updateCompany"
    /\ \E outcome \in FetchOutcomes :
          IF updateThrows(outcome)
          THEN /\ Throw(outcome)
               /\ calls' = Completed(outcome)
          ELSE /\ pc' = "updateTracking"
               /\ calls' = Issue(Completed(outcome), "updateTracking",
                                 matched[Len(matched)].db)
               /\ res' = res
    /\ UNCHANGED <<RAPIDAPI_KEY, SB_KEY, table, offset, dbCompanies, qi, budget,
                   allJobs, employers, ei, matched, notFound, nvars, mvars>>

\* the fetch of updateTracking completes; the loop goes on
UpdateTrackingResponse ==
    /\ pc = "updateTracking"
    /\ \E outcome \in FetchOutcomes :
          IF updateThrows(outcome)
          THEN /\ Throw(outcome)
               /\ calls' = Completed(outcome)
               /\ UNCHANGED <<ei, matched, notFound>>
          ELSE MatchOn(Completed(outcome), allJobs, employers, ei + 1)
    /\ UNCHANGED <<RAPIDAPI_KEY, SB_KEY, table, offset, dbCompanies, qi, budget,
                   allJobs, employers, nvars, mvars>>

Next ==
    \/ HandlerStart
    \/ GetCompaniesResponse
    \/ SearchJobsResponse
    \/ UpdateCompanyResponse
    \/ UpdateTrackingResponse

Spec == Init /\ [][Next]_vars

-----------------------------------------------------------------------------
(* The claims.                                                             *)

\* the rules as the specification words them, between n and d
ExactRule(n, d) == d = n

WordPrefix(long, short) ==
    /\ Len(long) > Len(short)
    /\ \A j \in 1..Len(short) : long[j] = short[j]
    /\ long[Len(short) + 1] = " "

Contains(long, short) ==
    \E i \in 0..(Len(long) - Len(short)) :
        \A j \in 1..Len(short) : long[i + j] = short[j]

BoundaryRule(n, d) ==
    \/ Len(d) >= 5 /\ WordPrefix(n, d)
    \/ Len(n) >= 5 /\ WordPrefix(d, n)

SubstringRule(n, d) ==
    \/ Len(d) >= 8 /\ Contains(n, d)
    \/ Len(n) >= 8 /\ Contains(d, n)

AnyRule(n, d) == ExactRule(n, d) \/ BoundaryRule(n, d) \/ SubstringRule(n, d)

Hits == { i \in 1..Len(companies) :
            AnyRule(normalize(employerName), normalize(companies[i].companyname)) }

\* C1: matchCompany(s, C) returns the lowest-index company of C for which
\* one of the five rules holds between normalize(s) and the company's
\* normalized name, and null exactly when no company satisfies a rule.
C1_FirstMatchWins ==
    match # <<>> =>
        IF Hits = {} THEN match[1] = <<>>
        ELSE match[1] = <<companies[CHOOSE i \in Hits : \A j \in Hits : i <= j]>>

\* an earlier company that satisfies only a substring rule is returned
\* although a later one matches exactly
C1_SubstringBeatsLaterExact ==
    /\ match # <<>> /\ Len(companies) = 2
    /\ LET n == normalize(employerName)
           d1 == normalize(companies[1].companyname)
           d2 == normalize(companies[2].companyname)
       IN  /\ SubstringRule(n, d1)
           /\ ~ExactRule(n, d1) /\ ~BoundaryRule(n, d1)
           /\ ExactRule(n, d2)
    /\ match[1] = <<companies[1]>>

\* C8: a reference company whose name has 4 characters is returned only
\* when the exact rule or a word-boundary prefix rule holds between the
\* normalized names; "Intel" is not returned for "Intellivation" and is
\* returned for "Intel Corporation".
C8_ShortNameGuard ==
    match # <<>> =>
        /\ (match[1] # <<>> /\ Len(match[1][1].companyname) = 4) =>
              LET n == normalize(employerName)
                  d == normalize(match[1][1].companyname)
              IN  ExactRule(n, d) \/ BoundaryRule(n, d)
        /\ employerName = sIntellivation =>
              (match[1] = <<>> \/ match[1][1].companyname # sIntel)
        /\ (employerName = sIntelCorporation /\ companies # <<>>
            /\ companies[1].companyname = sIntel) =>
              match[1] = <<companies[1]>>

\* a 4-character company whose normalized name occurs inside the search
\* name is passed over, and a later 4-character company is returned on an
\* exact match
C8_ShortNameSkipped ==
    /\ match # <<>> /\ Len(companies) = 2
    /\ Len(companies[1].companyname) = 4 /\ Len(companies[2].companyname) = 4
    /\ LET n == normalize(employerName)
           d1 == normalize(companies[1].companyname)
       IN  d1 # <<>> /\ d1 # n /\ Contains(n, d1)
    /\ match[1] = <<companies[2]>>

UpdateOps == {"updateCompany", "updateTracking"}

CallsOf(op) == { k \in 1..Len(calls) : calls[k].op = op }

Failed(k) == calls[k].outcome \notin {"ok", "pending"}

\* the employers that match a company of the snapshot
MatchingEmployers ==
    { i \in 1..Len(employers) :
        matchCompany(employers[i].emp.name, dbCompanies) # <<>> }

BothAttempted(i) ==
    LET c == matchCompany(employers[i].emp.name, dbCompanies)[1].companyname
    IN  /\ \E k \in CallsOf("updateCompany") : calls[k].arg = c
        /\ \E k \in CallsOf("updateTracking") : calls[k].arg = c

\* C4: in a run where several employers match, when an update call fails
\* for one matched company the run is not aborted: every matched company
\* has both updates attempted and handler answers 200 with a report that
\* counts them all.
C4_UpdateFailureIsolated ==
    (/\ pc = "done" /\ Cardinality(MatchingEmployers) >= 2
     /\ \E k \in 1..Len(calls) : calls[k].op \in UpdateOps /\ Failed(k))
        => /\ res[1].status = 200
           /\ \A i \in MatchingEmployers : BothAttempted(i)
           /\ res[1].report[1].matchedInDB = Cardinality(MatchingEmployers)

\* C5: a failed updateCompany does not keep updateTracking from being
\* attempted for the same company.
C5_TrackingAttemptedAfterFailure ==
    \A k \in CallsOf("updateCompany") :
        Failed(k) => \E j \in CallsOf("updateTracking") :
                        j > k /\ calls[j].arg = calls[k].arg

OkSearchesBefore(k) ==
    { calls[j].arg : j \in { i \in CallsOf("searchJobs") :
                               i < k /\ calls[i].outcome = "ok" } }

\* C6: a search that fails aborts the run: it is the last call, handler
\* answers an error and no report, nothing is matched and no update is
\* issued; every update is issued after all searches succeeded.
C6_SearchFailureAborts ==
    /\ \A k \in CallsOf("searchJobs") :
          Failed(k) => /\ k = Len(calls)
                       /\ pc = "done"
                       /\ res = <<[status |-> 500, error |-> calls[k].outcome,
                                   report |-> <<>>]>>
                       /\ employers = <<>> /\ matched = <<>> /\ notFound = <<>>
                       /\ \A j \in 1..Len(calls) : calls[j].op \notin UpdateOps
    /\ \A k \in 1..Len(calls) :
          calls[k].op \in UpdateOps =>
              OkSearchesBefore(k) = { SEARCHES[q] : q \in 1..Len(SEARCHES) }

\* the third search answers a non-success status after two that succeeded
C6_ThirdSearchFails ==
    /\ pc = "done" /\ res # <<>> /\ res[1].status = 500
    /\ \E k \in CallsOf("searchJobs") :
          /\ calls[k].arg = SEARCHES[3] /\ calls[k].outcome = "http"
          /\ Cardinality(OkSearchesBefore(k)) = 2
    /\ allJobs # <<>>

\* C7: a page of the reference store that answers a non-success status
\* aborts the run: it is the last call and handler answers an error; no
\* search, no matching, no update follows.
C7_StoreFailureAborts ==
    \A k \in CallsOf("getCompanies") :
        calls[k].outcome \in StoreHttpErrors
            => k = Len(calls) /\ pc = "done" /\ res[1].status = 500

Deduped ==
    \E k \in CallsOf("searchJobs") :
        calls[k].arg = SEARCHES[Len(SEARCHES)] /\ calls[k].outcome = "ok"

LowerCased(nm) == [i \in 1..Len(nm) |-> toLowerChar(nm[i])]

\* the listings that are the first with their employer name, case ignored
Firsts ==
    LET key == [i \in 1..Len(allJobs) |-> LowerCased(allJobs[i].employer_name)]
    IN  { i \in 1..Len(allJobs) :
            key[i] # <<>> /\ \A j \in 1..(i - 1) : key[j] # key[i] }

\* C9: the employer candidates are one per distinct employer name, case
\* ignored, in first-seen order, each with the name, title, location and
\* URL of the first listing of that name.
C9_Dedup ==
    Deduped =>
        LET F == Firsts
        IN  /\ Len(employers) = Cardinality(F)
            /\ \A p \in 1..Len(employers) :
                  \E i \in F :
                      /\ Cardinality({ j \in F : j < i }) = p - 1
                      /\ employers[p].key = LowerCased(allJobs[i].employer_name)
                      /\ employers[p].emp =
                            [name |-> allJobs[i].employer_name,
                             title |-> allJobs[i].job_title,
                             location |-> allJobs[i].job_city,
                             url |-> allJobs[i].job_apply_link]

\* listings "Acme" then "ACME" gave one candidate, with the first's title
C9_AcmeCollapsed ==
    /\ Deduped /\ Len(allJobs) >= 2
    /\ allJobs[1].employer_name = wAcme
    /\ \E j \in 2..Len(allJobs) : allJobs[j].employer_name = <<"A","C","M","E">>
    /\ Cardinality({ p \in 1..Len(employers) :
                       employers[p].key = <<"a","c","m","e">> }) = 1
    /\ employers[1].emp.title = "Mechanical Engineer"

\* C10: with a credential absent handler answers the configuration error
\* and no network call is issued.
C10_NoCallWithoutCredentials ==
    (pc # "idle" /\ (~RAPIDAPI_KEY \/ ~SB_KEY)) =>
        /\ calls = <<>>
        /\ pc = "done" =>
              res = <<[status |-> 500,
                       error |-> "Missing RAPIDAPI_KEY or SUPABASE_SERVICE_KEY env vars",
                       report |-> <<>>]>>

\* handler has answered the configuration error with one credential absent
C10_ConfigErrorAnswered ==
    /\ pc = "done" /\ RAPIDAPI_KEY /\ ~SB_KEY
    /\ res # <<>> /\ res[1].status = 500 /\ calls = <<>>

=============================================================================
